---- MODULE Spec2Model ----
(***************************************************************************)
(* Model of the subscription service: the PostgresRepository (the Store)   *)
(* over the `subscriptions` table and the gin Handler (the Request         *)
(* Boundary) that calls it and maps its errors to HTTP status codes.       *)
(*                                                                         *)
(* Strings that the code parses (dates) are sequences of one-character     *)
(* strings, so that time.Parse and Time.Format are real conversions.       *)
(***************************************************************************)
EXTENDS Integers, Sequences, FiniteSets, TLC

VARIABLES subscriptions, issued, last, before, inflight, serial

vars == <<subscriptions, issued, last, before, inflight, serial>>

\* ------------------------------------------------------------------ bounds
\* Number of uuids uuid.New() hands out in one run of the model.
MaxIds == 2

\* ------------------------------------------------------------------ uuids
IdPool == <<"s1", "s2", "s3", "s4", "s5">>

Ids == {IdPool[i] : i \in 1..MaxIds}

Users == {"u1", "u2"}

\* uuid.Nil, the zero UUID
uuidNil == "00000000-0000-0000-0000-000000000000"

\* uuid.Parse: the texts that are UUIDs parse to themselves, others fail
uuidParse(s) ==
    IF s \in Ids \cup Users THEN [ok |-> TRUE, id |-> s]
    ELSE [ok |-> FALSE, id |-> uuidNil]

\* ------------------------------------------------------------------ dates
Digits == {"0", "1", "2", "3", "4", "5", "6", "7", "8", "9"}

DigitVal(c) ==
    CASE c = "0" -> 0 [] c = "1" -> 1 [] c = "2" -> 2 [] c = "3" -> 3
      [] c = "4" -> 4 [] c = "5" -> 5 [] c = "6" -> 6 [] c = "7" -> 7
      [] c = "8" -> 8 [] c = "9" -> 9

DigitChar(n) ==
    CASE n = 0 -> "0" [] n = 1 -> "1" [] n = 2 -> "2" [] n = 3 -> "3"
      [] n = 4 -> "4" [] n = 5 -> "5" [] n = 6 -> "6" [] n = 7 -> "7"
      [] n = 8 -> "8" [] n = 9 -> "9"

\* the zero time.Time, returned with a parse error
ZeroTime == [year |-> 1, month |-> 1]

\* time.Parse("01-2006", s): two-digit month in 1..12, a dash, a four-digit
\* year, nothing after it.  The day defaults to 1 and is not represented.
Parse(s) ==
    IF /\ Len(s) = 7
       /\ s[1] \in Digits /\ s[2] \in Digits
       /\ s[3] = "-"
       /\ \A i \in 4..7 : s[i] \in Digits
       /\ 10 * DigitVal(s[1]) + DigitVal(s[2]) \in 1..12
    THEN [ok |-> TRUE,
          t  |-> [year  |-> 1000 * DigitVal(s[4]) + 100 * DigitVal(s[5])
                            + 10 * DigitVal(s[6]) + DigitVal(s[7]),
                  month |-> 10 * DigitVal(s[1]) + DigitVal(s[2])]]
    ELSE [ok |-> FALSE, t |-> ZeroTime]

\* the layout "01-06": a two-digit year
FormatTwoDigitYear(t) ==
    << DigitChar(t.month \div 10), DigitChar(t.month % 10), "-",
       DigitChar((t.year \div 10) % 10), DigitChar(t.year % 10) >>

\* t.Format("01-2006")
Format(t) ==
    << DigitChar(t.month \div 10), DigitChar(t.month % 10), "-",
       DigitChar(t.year \div 1000), DigitChar((t.year \div 100) % 10),
       DigitChar((t.year \div 10) % 10), DigitChar(t.year % 10) >>

\* compares the years only
DateLEYearOnly(a, b) == a.year <= b.year

\* SQL comparison of two date values (both on day 1 of their month)
DateLE(a, b) == a.year < b.year \/ (a.year = b.year /\ a.month <= b.month)

\* SQL NULL in the end_date column / sql.NullTime{Valid: false} / nil *time.Time
NULL == [year |-> 0, month |-> 0]

\* ------------------------------------------------------------------ errors
\* An error value is its message and what it wraps (%w).
NoError == [msg |-> "", wraps |-> "none"]

ErrNotFound == [msg |-> "subscription not found", wraps |-> "none"]

Errorf(m, cause) == [msg |-> m, wraps |-> cause]

\* errors.Is(err, storage.ErrNotFound)
IsNotFound(err) == err = ErrNotFound

\* types.Subscription zero value; also stands for a nil *Subscription
NoSub == [ServiceName |-> "", Price |-> 0, UserID |-> uuidNil,
          StartDate |-> <<>>, EndDate |-> <<>>]

\* ------------------------------------------------------- the backend table
\* `subscriptions` is the table: a function from the sub_id of each stored
\* row to the row.  `fault` says that the backend fails the statement
\* (connection lost, ...), which the driver reports as an error.
DriverError == "driver"

Row(subID, userID, serviceName, price, startDate, endDate) ==
    [sub_id |-> subID, user_id |-> userID, service_name |-> serviceName,
     price |-> price, start_date |-> startDate, end_date |-> endDate]

\* INSERT INTO subscriptions (...) VALUES (...)
Insert(db, row) ==
    [i \in DOMAIN db \cup {row.sub_id} |-> IF i = row.sub_id THEN row ELSE db[i]]

RECURSIVE SumPrice(_, _)
\* SUM(price) over the rows of db whose ids are in S; COALESCE(.., 0)
SumPrice(db, S) ==
    IF S = {} THEN 0
    ELSE LET i == CHOOSE x \in S : TRUE
         IN  db[i].price + SumPrice(db, S \ {i})

\* a Create whose row is stored although the statement reports a failure
CreateStoresOnFailure(db, sub, subID, fault) ==
    LET start == Parse(sub.StartDate)
        end   == Parse(sub.EndDate)
    IN  IF ~start.ok
        THEN [err |-> Errorf("invalid start_date format, expected MM-YYYY", "ParseError"),
              val |-> uuidNil, db |-> db, calls |-> 0]
        ELSE IF sub.EndDate # <<>> /\ ~end.ok
        THEN [err |-> Errorf("invalid end_date format, expected MM-YYYY", "ParseError"),
              val |-> uuidNil, db |-> db, calls |-> 0]
        ELSE [err |-> IF fault
                      THEN Errorf("failed to create subscription", DriverError)
                      ELSE NoError,
              val |-> IF fault THEN uuidNil ELSE subID,
              db  |-> Insert(db, Row(subID, sub.UserID, sub.ServiceName, sub.Price,
                                     start.t,
                                     IF sub.EndDate # <<>> THEN end.t ELSE NULL)),
              calls |-> 1]

\* PostgresRepository.Create
Create(db, sub, subID, fault) ==
    LET start == Parse(sub.StartDate)
        end   == Parse(sub.EndDate)
    IN  IF ~start.ok
        THEN [err |-> Errorf("invalid start_date format, expected MM-YYYY", "ParseError"),
              val |-> uuidNil, db |-> db, calls |-> 0]
        ELSE IF sub.EndDate # <<>> /\ ~end.ok
        THEN [err |-> Errorf("invalid end_date format, expected MM-YYYY", "ParseError"),
              val |-> uuidNil, db |-> db, calls |-> 0]
        ELSE IF fault
        THEN [err |-> Errorf("failed to create subscription", DriverError),
              val |-> uuidNil, db |-> db, calls |-> 1]
        ELSE [err |-> NoError, val |-> subID,
              db  |-> Insert(db, Row(subID, sub.UserID, sub.ServiceName, sub.Price,
                                     start.t,
                                     IF sub.EndDate # <<>> THEN end.t ELSE NULL)),
              calls |-> 1]

\* a Get that formats end_date without looking at Valid
GetFormatsNullEnd(db, id, fault) ==
    IF fault
    THEN [err |-> Errorf("failed to get subscription", DriverError),
          val |-> NoSub, db |-> db, calls |-> 1]
    ELSE IF id \notin DOMAIN db
    THEN [err |-> ErrNotFound, val |-> NoSub, db |-> db, calls |-> 1]
    ELSE [err |-> NoError,
          val |-> [ServiceName |-> db[id].service_name,
                   Price       |-> db[id].price,
                   UserID      |-> db[id].user_id,
                   StartDate   |-> Format(db[id].start_date),
                   EndDate     |-> Format(db[id].end_date)],
          db |-> db, calls |-> 1]

\* PostgresRepository.Get
Get(db, id, fault) ==
    IF fault
    THEN [err |-> Errorf("failed to get subscription", DriverError),
          val |-> NoSub, db |-> db, calls |-> 1]
    ELSE IF id \notin DOMAIN db
    THEN [err |-> ErrNotFound, val |-> NoSub, db |-> db, calls |-> 1]
    ELSE [err |-> NoError,
          val |-> [ServiceName |-> db[id].service_name,
                   Price       |-> db[id].price,
                   UserID      |-> db[id].user_id,
                   StartDate   |-> Format(db[id].start_date),
                   EndDate     |-> IF db[id].end_date # NULL
                                   THEN Format(db[id].end_date) ELSE <<>>],
          db |-> db, calls |-> 1]

\* an UPDATE that also sets user_id
UpdateSetWithUser(db, id, sub, startDate, endDate) ==
    [i \in DOMAIN db |->
        IF i = id
        THEN [db[i] EXCEPT !.service_name = sub.ServiceName,
                           !.price = sub.Price,
                           !.user_id = sub.UserID,
                           !.start_date = startDate,
                           !.end_date = endDate]
        ELSE db[i]]

\* UPDATE subscriptions SET service_name, price, start_date, end_date
\* WHERE sub_id = id; the value is the new table
UpdateSet(db, id, sub, startDate, endDate) ==
    [i \in DOMAIN db |->
        IF i = id
        THEN [db[i] EXCEPT !.service_name = sub.ServiceName,
                           !.price = sub.Price,
                           !.start_date = startDate,
                           !.end_date = endDate]
        ELSE db[i]]

\* sql.Result.RowsAffected() of a statement with WHERE sub_id = id
RowsAffected(db, id) == IF id \in DOMAIN db THEN 1 ELSE 0

\* an Update that does not check the end date's parse error
UpdateSkipsEndDateCheck(db, id, sub, fault) ==
    LET start == Parse(sub.StartDate)
        end   == Parse(sub.EndDate)
    IN  IF ~start.ok
        THEN [err |-> Errorf("invalid start_date format, expected MM-YYYY", "ParseError"),
              db |-> db, calls |-> 0]
        ELSE IF fault
        THEN [err |-> Errorf("failed to update subscription", DriverError),
              db |-> db, calls |-> 1]
        ELSE IF RowsAffected(db, id) = 0
        THEN [err |-> ErrNotFound, db |-> db, calls |-> 1]
        ELSE [err |-> NoError,
              db  |-> UpdateSet(db, id, sub, start.t,
                                IF sub.EndDate # <<>> THEN end.t ELSE NULL),
              calls |-> 1]

\* PostgresRepository.Update
Update(db, id, sub, fault) ==
    LET start == Parse(sub.StartDate)
        end   == Parse(sub.EndDate)
    IN  IF ~start.ok
        THEN [err |-> Errorf("invalid start_date format, expected MM-YYYY", "ParseError"),
              db |-> db, calls |-> 0]
        ELSE IF sub.EndDate # <<>> /\ ~end.ok
        THEN [err |-> Errorf("invalid end_date format, expected MM-YYYY", "ParseError"),
              db |-> db, calls |-> 0]
        ELSE IF fault
        THEN [err |-> Errorf("failed to update subscription", DriverError),
              db |-> db, calls |-> 1]
        ELSE IF RowsAffected(db, id) = 0
        THEN [err |-> ErrNotFound, db |-> db, calls |-> 1]
        ELSE [err |-> NoError,
              db  |-> UpdateSet(db, id, sub, start.t,
                                IF sub.EndDate # <<>> THEN end.t ELSE NULL),
              calls |-> 1]

\* a Delete that does not look at the affected-row count
DeleteIgnoresRowsAffected(db, id, fault) ==
    IF fault
    THEN [err |-> Errorf("failed to delete subscription", DriverError),
          db |-> db, calls |-> 1]
    ELSE [err |-> NoError,
          db  |-> [i \in DOMAIN db \ {id} |-> db[i]],
          calls |-> 1]

\* PostgresRepository.Delete
Delete(db, id, fault) ==
    IF fault
    THEN [err |-> Errorf("failed to delete subscription", DriverError),
          db |-> db, calls |-> 1]
    ELSE IF RowsAffected(db, id) = 0
    THEN [err |-> ErrNotFound, db |-> db, calls |-> 1]
    ELSE [err |-> NoError,
          db  |-> [i \in DOMAIN db \ {id} |-> db[i]],
          calls |-> 1]

\* ------------------------------------------------------------ GetTotalCost
\* The WHERE clause is a sequence of conditions, each on one column and one
\* placeholder $ph; the arguments are the sequence passed to QueryRow.
GetTotalCostQuery(userID, serviceName) ==
    << [col |-> "start_date", ph |-> 1], [col |-> "end_date", ph |-> 2] >>
    \o (IF userID # uuidNil THEN << [col |-> "user_id", ph |-> 3] >> ELSE << >>)
    \o (IF serviceName # "" THEN << [col |-> "service_name", ph |-> 4] >> ELSE << >>)

GetTotalCostArgs(userID, serviceName, startTime, endTime) ==
    << endTime, startTime >>
    \o (IF userID # uuidNil THEN << userID >> ELSE << >>)
    \o (IF serviceName # "" THEN << serviceName >> ELSE << >>)

\* The backend accepts a statement when its placeholders are exactly
\* $1..$n for the n arguments bound: a placeholder beyond the arguments, or a
\* gap in the numbering, makes the statement fail.
StatementOK(query, args) ==
    {query[i].ph : i \in DOMAIN query} = 1..Len(args)

\* the end_date condition without its IS NULL alternative
CondHoldsNoNull(row, c, args) ==
    CASE c.col = "start_date"   -> DateLE(row.start_date, args[c.ph])
      [] c.col = "end_date"     -> row.end_date # NULL /\ DateLE(args[c.ph], row.end_date)
      [] c.col = "user_id"      -> row.user_id = args[c.ph]
      [] c.col = "service_name" -> row.service_name = args[c.ph]

\* one condition of the WHERE clause on one row
CondHolds(row, c, args) ==
    CASE c.col = "start_date"   -> DateLE(row.start_date, args[c.ph])
      [] c.col = "end_date"     -> \/ row.end_date # NULL /\ DateLE(args[c.ph], row.end_date)
                                   \/ row.end_date = NULL
      [] c.col = "user_id"      -> row.user_id = args[c.ph]
      [] c.col = "service_name" -> row.service_name = args[c.ph]

\* the rows the WHERE clause selects
Selected(db, query, args) ==
    {i \in DOMAIN db : \A k \in DOMAIN query : CondHolds(db[i], query[k], args)}

\* PostgresRepository.GetTotalCost
GetTotalCost(db, userID, serviceName, periodStart, periodEnd, fault) ==
    LET start == Parse(periodStart)
        end   == Parse(periodEnd)
        query == GetTotalCostQuery(userID, serviceName)
        args  == GetTotalCostArgs(userID, serviceName, start.t, end.t)
    IN  IF ~start.ok
        THEN [err |-> Errorf("invalid period_start format", "ParseError"),
              val |-> 0, db |-> db, calls |-> 0]
        ELSE IF ~end.ok
        THEN [err |-> Errorf("invalid period_end format", "ParseError"),
              val |-> 0, db |-> db, calls |-> 0]
        ELSE IF fault \/ ~StatementOK(query, args)
        THEN [err |-> Errorf("failed to calculate total cost", DriverError),
              val |-> 0, db |-> db, calls |-> 1]
        ELSE [err |-> NoError,
              val |-> SumPrice(db, Selected(db, query, args)),
              db |-> db, calls |-> 1]

\* -------------------------------------------------------------------- List
\* ORDER BY start_date ASC
OrderedAsc(db, order) ==
    \A i, j \in DOMAIN order :
        i < j => DateLE(db[order[i]].start_date, db[order[j]].start_date)

\* ORDER BY start_date DESC on a sequence of row ids
OrderedDesc(db, order) ==
    \A i, j \in DOMAIN order :
        i < j => DateLE(db[order[j]].start_date, db[order[i]].start_date)

\* The orders in which the backend may return the rows: every row once,
\* start_date descending, rows with equal start_date in any order.
ListOrders(db) ==
    {order \in [1..Cardinality(DOMAIN db) -> DOMAIN db] :
        /\ \A i, j \in DOMAIN order : i # j => order[i] # order[j]
        /\ OrderedDesc(db, order)}

\* PostgresRepository.List, the backend returning the rows in `order`
List(db, order, fault) ==
    IF fault
    THEN [err |-> Errorf("failed to list subscriptions", DriverError),
          val |-> << >>, db |-> db, calls |-> 1]
    ELSE [err |-> NoError,
          val |-> [k \in DOMAIN order |->
                     [ServiceName |-> db[order[k]].service_name,
                      Price       |-> db[order[k]].price,
                      UserID      |-> db[order[k]].user_id,
                      StartDate   |-> Format(db[order[k]].start_date),
                      EndDate     |-> IF db[order[k]].end_date # NULL
                                      THEN Format(db[order[k]].end_date) ELSE <<>>]],
          db |-> db, calls |-> 1]

\* ---------------------------------------------------------- request inputs
\* Date texts a request may carry: well-formed ones and malformed ones.
Jan2024 == <<"0", "1", "-", "2", "0", "2", "4">>
Mar2024 == <<"0", "3", "-", "2", "0", "2", "4">>
Jun2024 == <<"0", "6", "-", "2", "0", "2", "4">>
Dec2024 == <<"1", "2", "-", "2", "0", "2", "4">>
Jan2025 == <<"0", "1", "-", "2", "0", "2", "5">>
Mar2025 == <<"0", "3", "-", "2", "0", "2", "5">>
\* month out of range
BadMonth == <<"1", "3", "-", "2", "0", "2", "4">>
\* one-digit month
ShortMonth == <<"3", "-", "2", "0", "2", "4">>
\* year first
YearFirst == <<"2", "0", "2", "4", "-", "1", "2">>

Sub(serviceName, price, userID, startDate, endDate) ==
    [ServiceName |-> serviceName, Price |-> price, UserID |-> userID,
     StartDate |-> startDate, EndDate |-> endDate]

SubA == Sub("Netflix", 100, "u1", Jan2024, Dec2024)
SubB == Sub("Yandex", 200, "u2", Jun2024, <<>>)
SubC == Sub("Netflix", 50, "u2", Jun2024, Mar2025)

\* JSON bodies of POST and PUT requests
Bodies ==
    { SubA, SubB, SubC,
      Sub("Netflix", 100, "u1", BadMonth, <<>>),
      Sub("Yandex", 200, "u2", Jun2024, YearFirst),
      Sub("Netflix", 100, "u1", <<>>, <<>>),
      Sub("Netflix", -5, "u1", Jan2024, <<>>),
      Sub("Yandex", 0, "u2", Jun2024, <<>>) }

\* the :id path parameter
PathIds == Ids \cup {"not-a-uuid"}

\* the query parameters of /subscriptions/totalCost
UserIDQueries == {"", "u1", "not-a-uuid"}
ServiceNameQueries == {"", "Netflix"}
PeriodStartQueries == {<<>>, Mar2024, Jan2025, ShortMonth}
PeriodEndQueries == {<<>>, Mar2024, BadMonth}

\* the query strings requested: every combination of the parameters in
\* which at most one parameter is missing or malformed
TotalCostQueries ==
    {q \in [user_id : UserIDQueries, service_name : ServiceNameQueries,
            period_start : PeriodStartQueries, period_end : PeriodEndQueries] :
        (IF q.user_id \notin Users \cup {""} THEN 1 ELSE 0)
        + (IF ~Parse(q.period_start).ok THEN 1 ELSE 0)
        + (IF q.period_end # <<>> /\ ~Parse(q.period_end).ok THEN 1 ELSE 0) <= 1}

\* ------------------------------------------------------------- the Handler
StatusOK == 200
StatusCreated == 201
StatusBadRequest == 400
StatusNotFound == 404
StatusInternalServerError == 500

\* the binding tags without min=0 on Price
ShouldBindJSONNoMin(sub) ==
    /\ sub.ServiceName # ""
    /\ sub.Price # 0
    /\ sub.UserID # uuidNil
    /\ sub.StartDate # <<>>

\* c.ShouldBindJSON(&sub): the `binding` tags of types.Subscription
ShouldBindJSON(sub) ==
    /\ sub.ServiceName # ""
    /\ sub.Price # 0 /\ sub.Price >= 0
    /\ sub.UserID # uuidNil
    /\ sub.StartDate # <<>>

\* what one request did: the handler, its inputs, whether it called the
\* Repo, whether the backend failed the statement, the Repo's results, the
\* number of backend statements issued and the HTTP status written
Response(op, req, repo, fault, err, val, calls, status) ==
    [op |-> op, req |-> req, repo |-> repo, fault |-> fault, err |-> err,
     val |-> val, calls |-> calls, status |-> status]

Init ==
    /\ subscriptions = << >>
    /\ issued = 0
    /\ last = Response("none", << >>, FALSE, FALSE, NoError, 0, 0, 0)
    /\ before = << >>
    /\ inflight = << >>
    /\ serial = << >>

\* does Create reach uuid.New() for this body
CreateDrawsID(sub) ==
    Parse(sub.StartDate).ok /\ (sub.EndDate # <<>> => Parse(sub.EndDate).ok)

\* Handler.CreateSub
CreateSub ==
    \E sub \in Bodies :
        IF ~ShouldBindJSON(sub)
        THEN /\ last' = Response("CreateSub", [sub |-> sub], FALSE, FALSE,
                                 NoError, uuidNil, 0, StatusBadRequest)
             /\ UNCHANGED <<subscriptions, issued>>
        ELSE /\ CreateDrawsID(sub) => issued < MaxIds
             /\ \E fault \in BOOLEAN :
                \E r \in {Create(subscriptions, sub, IdPool[issued + 1], fault)} :
                    /\ fault => r.calls > 0
                    /\ subscriptions' = r.db
                    /\ issued' = IF CreateDrawsID(sub) THEN issued + 1 ELSE issued
                    /\ last' = Response("CreateSub", [sub |-> sub], TRUE,
                                        fault /\ r.calls > 0, r.err, r.val, r.calls,
                                        IF r.err # NoError
                                        THEN StatusInternalServerError
                                        ELSE StatusCreated)

\* Handler.GetSub
GetSub ==
    \E param \in PathIds :
        IF ~uuidParse(param).ok
        THEN /\ last' = Response("GetSub", [id |-> param], FALSE, FALSE,
                                 NoError, NoSub, 0, StatusBadRequest)
             /\ UNCHANGED <<subscriptions, issued>>
        ELSE \E fault \in BOOLEAN :
             \E r \in {Get(subscriptions, uuidParse(param).id, fault)} :
                 /\ subscriptions' = r.db
                 /\ last' = Response("GetSub", [id |-> param], TRUE,
                                     fault /\ r.calls > 0, r.err, r.val, r.calls,
                                     IF IsNotFound(r.err) THEN StatusNotFound
                                     ELSE IF r.err # NoError
                                     THEN StatusInternalServerError
                                     ELSE StatusOK)
                 /\ UNCHANGED issued

\* Handler.UpdateSub
UpdateSub ==
    \E param \in PathIds, sub \in Bodies :
        IF ~uuidParse(param).ok \/ ~ShouldBindJSON(sub)
        THEN /\ last' = Response("UpdateSub", [id |-> param, sub |-> sub], FALSE,
                                 FALSE, NoError, 0, 0, StatusBadRequest)
             /\ UNCHANGED <<subscriptions, issued>>
        ELSE \E fault \in BOOLEAN :
             \E r \in {Update(subscriptions, uuidParse(param).id, sub, fault)} :
                 /\ fault => r.calls > 0
                 /\ subscriptions' = r.db
                 /\ last' = Response("UpdateSub", [id |-> param, sub |-> sub], TRUE,
                                     fault /\ r.calls > 0, r.err, 0, r.calls,
                                     IF IsNotFound(r.err) THEN StatusNotFound
                                     ELSE IF r.err # NoError
                                     THEN StatusInternalServerError
                                     ELSE StatusOK)
                 /\ UNCHANGED issued

\* Handler.DeleteSub
DeleteSub ==
    \E param \in PathIds :
        IF ~uuidParse(param).ok
        THEN /\ last' = Response("DeleteSub", [id |-> param], FALSE, FALSE,
                                 NoError, 0, 0, StatusBadRequest)
             /\ UNCHANGED <<subscriptions, issued>>
        ELSE \E fault \in BOOLEAN :
             \E r \in {Delete(subscriptions, uuidParse(param).id, fault)} :
                 /\ subscriptions' = r.db
                 /\ last' = Response("DeleteSub", [id |-> param], TRUE,
                                     fault /\ r.calls > 0, r.err, 0, r.calls,
                                     IF IsNotFound(r.err) THEN StatusNotFound
                                     ELSE IF r.err # NoError
                                     THEN StatusInternalServerError
                                     ELSE StatusOK)
                 /\ UNCHANGED issued

\* Handler.ListSubs
ListSubs ==
    \E order \in ListOrders(subscriptions), fault \in BOOLEAN :
        \E r \in {List(subscriptions, order, fault)} :
            /\ subscriptions' = r.db
            /\ last' = Response("ListSubs", << >>, TRUE, fault /\ r.calls > 0,
                                r.err, r.val, r.calls,
                                IF r.err # NoError THEN StatusInternalServerError
                                ELSE StatusOK)
            /\ UNCHANGED issued

\* the far-future default of period_end
DefaultPeriodEnd == <<"1", "2", "-", "2", "1", "0", "0">>

\* Handler.GetTotalCost
HandlerGetTotalCost ==
    \E q \in TotalCostQueries :
        LET userIDStr    == q.user_id
            serviceName  == q.service_name
            periodStartQ == q.period_start
            periodEndQ   == q.period_end
            periodEnd == IF periodEndQ = <<>> THEN DefaultPeriodEnd ELSE periodEndQ
            userID    == IF userIDStr # "" THEN uuidParse(userIDStr).id ELSE uuidNil
            req       == [userID |-> userID, serviceName |-> serviceName,
                          periodStart |-> periodStartQ, periodEnd |-> periodEnd]
        IN  IF periodStartQ = <<>> \/ (userIDStr # "" /\ ~uuidParse(userIDStr).ok)
            THEN /\ last' = Response("GetTotalCost", req, FALSE, FALSE, NoError,
                                     0, 0, StatusBadRequest)
                 /\ UNCHANGED <<subscriptions, issued>>
            ELSE \E fault \in BOOLEAN :
                 \E r \in {GetTotalCost(subscriptions, userID, serviceName,
                                       periodStartQ, periodEnd, fault)} :
                     /\ fault => r.calls > 0
                     /\ subscriptions' = r.db
                     /\ last' = Response("GetTotalCost", req, TRUE,
                                         fault /\ r.calls > 0, r.err, r.val, r.calls,
                                         IF r.err # NoError
                                         THEN StatusInternalServerError
                                         ELSE StatusOK)
                     /\ UNCHANGED issued

\* one request served; `before` keeps the table as the request found it
Serve(handler) ==
    handler /\ before' = subscriptions /\ UNCHANGED <<inflight, serial>>

Next ==
    \/ Serve(CreateSub)
    \/ Serve(GetSub)
    \/ Serve(UpdateSub)
    \/ Serve(DeleteSub)
    \/ Serve(ListSubs)
    \/ Serve(HandlerGetTotalCost)

Spec == Init /\ [][Next]_vars

\* ------------------------------------------------------- concurrent callers
\* Store methods called by several goroutines at once.  A call is three
\* steps: its entry (the dates are parsed, Create draws its uuid), its one
\* backend statement, which the backend executes atomically on the table,
\* and its return (the error and value are built from the statement's
\* result).  Steps of different calls interleave freely.
\*
\* `serial` is the table obtained by applying the Store's methods one after
\* the other in the order of the statements, and each call's `expect` is what
\* the method returned in that sequential run.

\* number of callers, each making one call
MaxCalls == 2

Callers == 1..MaxCalls

\* the tables the callers may find: 0 to MaxIds - 1 earlier Creates
SeedBodies == <<SubA, SubB, SubC, SubA, SubB>>

RECURSIVE SeedTable(_)
SeedTable(k) ==
    IF k = 0 THEN << >>
    ELSE Create(SeedTable(k - 1), SeedBodies[k], IdPool[k], FALSE).db

\* the calls a caller may make
ConcBodies == {SubB, Sub("Netflix", 100, "u1", Jun2024, YearFirst)}

Requests ==
    {[op |-> "Create", id |-> uuidNil, sub |-> b] : b \in ConcBodies}
    \cup {[op |-> "Update", id |-> i, sub |-> b] : i \in Ids, b \in ConcBodies}
    \cup {[op |-> o, id |-> i, sub |-> NoSub] : o \in {"Get", "Delete"}, i \in Ids}
    \cup {[op |-> o, id |-> uuidNil, sub |-> NoSub] : o \in {"List", "GetTotalCost"}}

\* the arguments of the one GetTotalCost call the callers make
ConcPeriodStart == Mar2024

ConcPeriodEnd == DefaultPeriodEnd

Idle == [pc |-> "idle", op |-> "none"]

\* does the method return before its statement: a date does not parse
ReturnsEarly(rq) ==
    /\ rq.op \in {"Create", "Update"}
    /\ ~CreateDrawsID(rq.sub)

\* the method run alone on table db
Sequential(db, rq, order, fail) ==
    CASE rq.op = "Create" -> Create(db, rq.sub, rq.id, fail)
      [] rq.op = "Get"    -> Get(db, rq.id, fail)
      [] rq.op = "Update" -> [val |-> 0] @@ Update(db, rq.id, rq.sub, fail)
      [] rq.op = "Delete" -> [val |-> 0] @@ Delete(db, rq.id, fail)
      [] rq.op = "List"   -> List(db, order, fail)
      [] rq.op = "GetTotalCost" ->
            GetTotalCost(db, uuidNil, "", ConcPeriodStart, ConcPeriodEnd, fail)

\* an UPDATE that inserts the row when no row has the id
ExecUpdateUpsert(db, id, sub) ==
    [db   |-> [i \in DOMAIN db \cup {id} |->
                 IF i = id
                 THEN Row(id, sub.UserID, sub.ServiceName, sub.Price,
                          Parse(sub.StartDate).t,
                          IF sub.EndDate # <<>> THEN Parse(sub.EndDate).t ELSE NULL)
                 ELSE db[i]],
     rows |-> 1]

\* r.db.Exec of the UPDATE statement: the new table and the affected rows
ExecUpdate(db, id, sub) ==
    [db   |-> UpdateSet(db, id, sub, Parse(sub.StartDate).t,
                        IF sub.EndDate # <<>> THEN Parse(sub.EndDate).t ELSE NULL),
     rows |-> RowsAffected(db, id)]

\* r.db.Exec of the DELETE statement
ExecDelete(db, id) ==
    [db   |-> [i \in DOMAIN db \ {id} |-> db[i]],
     rows |-> RowsAffected(db, id)]

\* r.db.Exec of the INSERT statement
ExecInsert(db, id, sub) ==
    [db   |-> Insert(db, Row(id, sub.UserID, sub.ServiceName, sub.Price,
                             Parse(sub.StartDate).t,
                             IF sub.EndDate # <<>> THEN Parse(sub.EndDate).t ELSE NULL)),
     rows |-> 1]

\* the rows a SELECT hands back, in the order given, not yet formatted
Scan(db, order) == [k \in DOMAIN order |-> db[order[k]]]

\* the statement of a call executed on table db: the table after it and
\* what the driver reports (failure, affected rows, rows read, the sum)
Statement(db, rq, order, fail) ==
    LET none == [db |-> db, fail |-> fail, rows |-> 0, read |-> << >>, total |-> 0]
    IN  IF fail THEN none
        ELSE CASE rq.op = "Create" ->
                    [none EXCEPT !.db = ExecInsert(db, rq.id, rq.sub).db, !.rows = 1]
               [] rq.op = "Update" ->
                    [none EXCEPT !.db = ExecUpdate(db, rq.id, rq.sub).db,
                                 !.rows = ExecUpdate(db, rq.id, rq.sub).rows]
               [] rq.op = "Delete" ->
                    [none EXCEPT !.db = ExecDelete(db, rq.id).db,
                                 !.rows = ExecDelete(db, rq.id).rows]
               [] rq.op = "Get" ->
                    [none EXCEPT !.read = IF rq.id \in DOMAIN db
                                          THEN << db[rq.id] >> ELSE << >>]
               [] rq.op = "List" ->
                    [none EXCEPT !.read = Scan(db, order)]
               [] rq.op = "GetTotalCost" ->
                    LET start == Parse(ConcPeriodStart).t
                        end   == Parse(ConcPeriodEnd).t
                        query == GetTotalCostQuery(uuidNil, "")
                        args  == GetTotalCostArgs(uuidNil, "", start, end)
                    IN  IF StatementOK(query, args)
                        THEN [none EXCEPT !.total = SumPrice(db, Selected(db, query, args))]
                        ELSE [none EXCEPT !.fail = TRUE]

\* the Subscription built from a scanned row
Scanned(row) ==
    [ServiceName |-> row.service_name,
     Price       |-> row.price,
     UserID      |-> row.user_id,
     StartDate   |-> Format(row.start_date),
     EndDate     |-> IF row.end_date # NULL THEN Format(row.end_date) ELSE <<>>]

\* what the method returns after its statement reported res
Returned(rq, res) ==
    CASE rq.op = "Create" ->
            IF res.fail
            THEN [err |-> Errorf("failed to create subscription", DriverError),
                  val |-> uuidNil]
            ELSE [err |-> NoError, val |-> rq.id]
      [] rq.op = "Get" ->
            IF res.fail
            THEN [err |-> Errorf("failed to get subscription", DriverError),
                  val |-> NoSub]
            ELSE IF res.read = << >> THEN [err |-> ErrNotFound, val |-> NoSub]
            ELSE [err |-> NoError, val |-> Scanned(res.read[1])]
      [] rq.op = "Update" ->
            IF res.fail
            THEN [err |-> Errorf("failed to update subscription", DriverError),
                  val |-> 0]
            ELSE IF res.rows = 0 THEN [err |-> ErrNotFound, val |-> 0]
            ELSE [err |-> NoError, val |-> 0]
      [] rq.op = "Delete" ->
            IF res.fail
            THEN [err |-> Errorf("failed to delete subscription", DriverError),
                  val |-> 0]
            ELSE IF res.rows = 0 THEN [err |-> ErrNotFound, val |-> 0]
            ELSE [err |-> NoError, val |-> 0]
      [] rq.op = "List" ->
            IF res.fail
            THEN [err |-> Errorf("failed to list subscriptions", DriverError),
                  val |-> << >>]
            ELSE [err |-> NoError,
                  val |-> [k \in DOMAIN res.read |-> Scanned(res.read[k])]]
      [] rq.op = "GetTotalCost" ->
            IF res.fail
            THEN [err |-> Errorf("failed to calculate total cost", DriverError),
                  val |-> 0]
            ELSE [err |-> NoError, val |-> res.total]

InitConc ==
    /\ \E k \in 0..(MaxIds - 1) :
          /\ subscriptions = SeedTable(k)
          /\ issued = k
    /\ serial = subscriptions
    /\ before = subscriptions
    /\ last = Response("none", << >>, FALSE, FALSE, NoError, 0, 0, 0)
    /\ inflight = [c \in Callers |-> Idle]

\* a goroutine enters a Store method
Call(c) ==
    /\ inflight[c].pc = "idle"
    /\ \E r \in Requests :
          LET draws == r.op = "Create" /\ ~ReturnsEarly(r)
              rq    == IF draws THEN [r EXCEPT !.id = IdPool[issued + 1]] ELSE r
              early == Sequential(serial, rq, << >>, FALSE)
          IN  /\ draws => issued < MaxIds
              /\ issued' = IF draws THEN issued + 1 ELSE issued
              /\ inflight' =
                   [inflight EXCEPT ![c] =
                      IF ReturnsEarly(rq)
                      THEN [pc |-> "returned", op |-> rq.op, rq |-> rq,
                            found |-> FALSE, stmt |-> FALSE,
                            err |-> early.err, val |-> early.val,
                            expect |-> [err |-> early.err, val |-> early.val]]
                      ELSE [pc |-> "called", op |-> rq.op, rq |-> rq,
                            found |-> rq.id \in DOMAIN subscriptions]]
    /\ UNCHANGED <<subscriptions, serial, last, before>>

\* the backend executes the call's statement
Execute(c) ==
    /\ inflight[c].pc = "called"
    /\ \E fail \in BOOLEAN, order \in ListOrders(subscriptions) :
          \E rq \in {inflight[c].rq} :
          \E res \in {Statement(subscriptions, rq, order, fail)},
             seq \in {Sequential(serial, rq, order, fail)} :
              /\ subscriptions' = res.db
              /\ serial' = seq.db
              /\ inflight' =
                   [inflight EXCEPT ![c] =
                      [pc |-> "executed", op |-> rq.op, rq |-> rq,
                       found |-> inflight[c].found,
                       res |-> [fail |-> res.fail, rows |-> res.rows,
                                read |-> res.read, total |-> res.total],
                       expect |-> [err |-> seq.err, val |-> seq.val]]]
    /\ UNCHANGED <<issued, last, before>>

\* the method returns to its caller
Return(c) ==
    /\ inflight[c].pc = "executed"
    /\ \E out \in {Returned(inflight[c].rq, inflight[c].res)} :
           inflight' =
             [inflight EXCEPT ![c] =
                [pc |-> "returned", op |-> inflight[c].op, rq |-> inflight[c].rq,
                 found |-> inflight[c].found, stmt |-> TRUE,
                 failed |-> inflight[c].res.fail, rows |-> inflight[c].res.rows,
                 err |-> out.err, val |-> out.val,
                 expect |-> inflight[c].expect]]
    /\ UNCHANGED <<subscriptions, serial, issued, last, before>>

NextConc ==
    \E c \in Callers :
        \/ Call(c)
        \/ Execute(c)
        \/ Return(c)

SpecConc == InitConc /\ [][NextConc]_vars

\* ============================================================== properties
\* What the specification says, stated without the Store's operators.

MonthTexts ==
    { <<"0", "1">>, <<"0", "2">>, <<"0", "3">>, <<"0", "4">>, <<"0", "5">>,
      <<"0", "6">>, <<"0", "7">>, <<"0", "8">>, <<"0", "9">>, <<"1", "0">>,
      <<"1", "1">>, <<"1", "2">> }

\* the text is a month-year: MM-YYYY with MM a calendar month
IsMonthYear(s) ==
    /\ Len(s) = 7
    /\ SubSeq(s, 1, 2) \in MonthTexts
    /\ s[3] = "-"
    /\ \A i \in 4..7 : s[i] \in Digits

\* months since year 0 of a month-year text, and of a stored date
TextMonths(s) ==
    12 * (1000 * DigitVal(s[4]) + 100 * DigitVal(s[5]) + 10 * DigitVal(s[6])
          + DigitVal(s[7]))
    + 10 * DigitVal(s[1]) + DigitVal(s[2])

DateMonths(d) == 12 * d.year + d.month

\* the record's interval [start_date, end_date or +infinity) overlaps
\* [periodStart, periodEnd]
Qualifies(row, periodStart, periodEnd) ==
    /\ DateMonths(row.start_date) <= TextMonths(periodEnd)
    /\ \/ row.end_date = NULL
       \/ DateMonths(row.end_date) >= TextMonths(periodStart)

\* the record passes the optional owner and service filters
PassesFilters(row, userID, serviceName) ==
    /\ userID # uuidNil => row.user_id = userID
    /\ serviceName # "" => row.service_name = serviceName

RECURSIVE TotalUpTo(_, _, _, _, _, _)
\* the sum of price over the qualifying, filtered records among the first k
\* ids of the pool
TotalUpTo(db, k, userID, serviceName, periodStart, periodEnd) ==
    IF k = 0 THEN 0
    ELSE TotalUpTo(db, k - 1, userID, serviceName, periodStart, periodEnd)
         + (IF /\ IdPool[k] \in DOMAIN db
               /\ Qualifies(db[IdPool[k]], periodStart, periodEnd)
               /\ PassesFilters(db[IdPool[k]], userID, serviceName)
            THEN db[IdPool[k]].price ELSE 0)

ExpectedTotal(db, userID, serviceName, periodStart, periodEnd) ==
    TotalUpTo(db, Len(IdPool), userID, serviceName, periodStart, periodEnd)

\* the last request was a total-cost query that reached the Store with
\* month-year periods and whose backend statement was not failed by the backend
TotalCostServed ==
    /\ last.op = "GetTotalCost"
    /\ last.repo /\ ~last.fault
    /\ IsMonthYear(last.req.periodStart)
    /\ IsMonthYear(last.req.periodEnd)

Unfiltered == last.req.userID = uuidNil /\ last.req.serviceName = ""

\* C1: GetTotalCost without user_id and service_name filters returns, without
\* error, the sum of price over the records with start_date <= period_end and
\* (end_date >= period_start or end_date absent); 0 when no record qualifies.
C1_UnfilteredTotalIsOverlapSum ==
    (TotalCostServed /\ Unfiltered) =>
        /\ last.err = NoError
        /\ last.val = ExpectedTotal(subscriptions, uuidNil, "",
                                    last.req.periodStart, last.req.periodEnd)

\* an unfiltered query that counted some records and left out others
C1_Witness ==
    /\ TotalCostServed /\ Unfiltered
    /\ last.err = NoError
    /\ last.val > 0
    /\ \E i \in DOMAIN subscriptions :
          ~Qualifies(subscriptions[i], last.req.periodStart, last.req.periodEnd)
    /\ \E i \in DOMAIN subscriptions :
          /\ subscriptions[i].end_date = NULL
          /\ Qualifies(subscriptions[i], last.req.periodStart, last.req.periodEnd)

\* C2: in all four combinations of the optional filters GetTotalCost succeeds
\* with the overlap sum restricted to the records that match every filter
\* given.
C2_FiltersAreConjunctive ==
    TotalCostServed =>
        /\ last.err = NoError
        /\ last.val = ExpectedTotal(subscriptions, last.req.userID,
                                    last.req.serviceName,
                                    last.req.periodStart, last.req.periodEnd)

\* the table holds exactly A(01-2024 .. 12-2024, 100) and B(06-2024 .., 200)
TableIsAB ==
    \E a, b \in DOMAIN subscriptions :
        /\ DOMAIN subscriptions = {a, b} /\ a # b
        /\ subscriptions[a].start_date = [year |-> 2024, month |-> 1]
        /\ subscriptions[a].end_date = [year |-> 2024, month |-> 12]
        /\ subscriptions[a].price = 100
        /\ subscriptions[b].start_date = [year |-> 2024, month |-> 6]
        /\ subscriptions[b].end_date = NULL
        /\ subscriptions[b].price = 200

QueryIs(periodStart, periodEnd) ==
    /\ TotalCostServed /\ Unfiltered
    /\ TableIsAB
    /\ last.req.periodStart = periodStart
    /\ last.req.periodEnd = periodEnd

\* C3 as stated: on A and B the unfiltered total for 03-2024..03-2024 is 300
\* and for 01-2025..12-2100 is 200.
C3_ExampleTotalsAsStated ==
    /\ QueryIs(Mar2024, Mar2024) => last.val = 300
    /\ QueryIs(Jan2025, DefaultPeriodEnd) => last.val = 200

\* C3 amended: on A and B the unfiltered total for 03-2024..03-2024 is 100
\* (B starts after the period) and for 01-2025..12-2100 is 200.
C3_ExampleTotals ==
    /\ QueryIs(Mar2024, Mar2024) => last.err = NoError /\ last.val = 100
    /\ QueryIs(Jan2025, DefaultPeriodEnd) => last.err = NoError /\ last.val = 200

C3_Witness == QueryIs(Mar2024, Mar2024) /\ last.err = NoError

\* the Subscription that Get and List build from a stored row
RowAsSub(row, sub) ==
    /\ sub.ServiceName = row.service_name
    /\ sub.Price = row.price
    /\ sub.UserID = row.user_id
    /\ IsMonthYear(sub.StartDate)
    /\ TextMonths(sub.StartDate) = DateMonths(row.start_date)
    /\ IF row.end_date = NULL THEN sub.EndDate = <<>>
       ELSE /\ IsMonthYear(sub.EndDate)
            /\ TextMonths(sub.EndDate) = DateMonths(row.end_date)

\* the dates of a body are month-years (the end date may be empty)
DatesWellFormed(sub) ==
    /\ IsMonthYear(sub.StartDate)
    /\ sub.EndDate # <<>> => IsMonthYear(sub.EndDate)

\* the last request was a Create that succeeded
Created == last.op = "CreateSub" /\ last.repo /\ last.err = NoError

\* the last request reached Update / Get / Delete in the Store
Reached(op) == last.op = op /\ last.repo

\* C4: right after a successful Create of an input with month-year dates, Get
\* on the returned id succeeds with the input's service_name, price, user_id,
\* start_date and end_date.
C4_CreateThenGetRoundTrip ==
    (Created /\ DatesWellFormed(last.req.sub)) =>
        /\ Get(subscriptions, last.val, FALSE).err = NoError
        /\ Get(subscriptions, last.val, FALSE).val = last.req.sub

\* a Create of a record with an end date succeeded while another record exists
C4_Witness ==
    /\ Created
    /\ last.req.sub.EndDate # <<>>
    /\ Cardinality(DOMAIN subscriptions) > 1

\* C5: Get, Update (with month-year dates) and Delete on an id that no stored
\* record has return ErrNotFound, and the handler answers 404.
C5_MissingIdIsNotFound ==
    \A op \in {"GetSub", "UpdateSub", "DeleteSub"} :
        ( /\ Reached(op) /\ ~last.fault
          /\ last.req.id \notin DOMAIN before
          /\ op = "UpdateSub" => DatesWellFormed(last.req.sub) )
        => /\ last.err = ErrNotFound
           /\ last.status = StatusNotFound
           /\ last.status # StatusInternalServerError

\* an Update of an id that was issued but is no longer stored was answered
C5_Witness ==
    /\ Reached("UpdateSub") /\ ~last.fault
    /\ DatesWellFormed(last.req.sub)
    /\ last.req.id \notin DOMAIN before
    /\ \E k \in 1..issued : IdPool[k] = last.req.id
    /\ last.status = StatusNotFound

\* the last request was an Update that succeeded
Updated == Reached("UpdateSub") /\ last.err = NoError

\* C6: after a successful Update(id, sub), Get(id) returns sub's service_name,
\* price, start_date and end_date, the record keeps its id and the user_id it
\* had before, and every other record is unchanged.
C6_UpdateReplacesFourFields ==
    Updated =>
        LET id  == last.req.id
            got == Get(subscriptions, id, FALSE)
        IN  /\ id \in DOMAIN before
            /\ DOMAIN subscriptions = DOMAIN before
            /\ got.err = NoError
            /\ got.val.ServiceName = last.req.sub.ServiceName
            /\ got.val.Price = last.req.sub.Price
            /\ got.val.StartDate = last.req.sub.StartDate
            /\ got.val.EndDate = last.req.sub.EndDate
            /\ got.val.UserID = before[id].user_id
            /\ subscriptions[id].sub_id = id
            /\ \A j \in DOMAIN before \ {id} : subscriptions[j] = before[j]

\* an Update whose body names another owner and changes all four fields,
\* with another record stored
C6_Witness ==
    /\ Updated
    /\ last.req.sub.UserID # before[last.req.id].user_id
    /\ last.req.sub.ServiceName # before[last.req.id].service_name
    /\ last.req.sub.Price # before[last.req.id].price
    /\ Format(before[last.req.id].start_date) # last.req.sub.StartDate
    /\ before[last.req.id].end_date # NULL /\ last.req.sub.EndDate = <<>>
    /\ Cardinality(DOMAIN subscriptions) > 1

\* C7: List returns one element per stored record, none missing or repeated,
\* with start_date non-increasing; on an empty table it succeeds with no
\* elements.
C7_ListIsCompleteAndDescending ==
    (Reached("ListSubs") /\ ~last.fault) =>
        /\ last.err = NoError
        /\ Len(last.val) = Cardinality(DOMAIN subscriptions)
        /\ \E f \in [DOMAIN last.val -> DOMAIN subscriptions] :
              /\ \A i, j \in DOMAIN f : i # j => f[i] # f[j]
              /\ \A i \in DOMAIN f : RowAsSub(subscriptions[f[i]], last.val[i])
        /\ \A i, j \in DOMAIN last.val :
              i < j => TextMonths(last.val[i].StartDate)
                       >= TextMonths(last.val[j].StartDate)

\* a listing of records with different start dates
C7_Witness ==
    /\ Reached("ListSubs") /\ last.err = NoError
    /\ Len(last.val) > 1
    /\ last.val[1].StartDate # last.val[Len(last.val)].StartDate

\* the error wraps a date parse failure / is a backend failure
IsInvalidDate(err) == err.wraps = "ParseError"

IsStorageFailure(err) == err.wraps = DriverError

\* the last request reached the Store with a date that is not a month-year
BadDateRequest ==
    \/ /\ last.op \in {"CreateSub", "UpdateSub"} /\ last.repo
       /\ ~DatesWellFormed(last.req.sub)
    \/ /\ last.op = "GetTotalCost" /\ last.repo
       /\ ~(IsMonthYear(last.req.periodStart) /\ IsMonthYear(last.req.periodEnd))

\* C8: Create, Update and GetTotalCost given a date that is not a month-year
\* fail with an invalid-date error, issue no backend statement and leave the
\* table as it was; for Update also when the target id does not exist.
C8_BadDateFailsBeforeBackend ==
    BadDateRequest =>
        /\ IsInvalidDate(last.err)
        /\ ~IsNotFound(last.err)
        /\ last.calls = 0
        /\ subscriptions = before

\* an Update with a malformed end date on an id that is not stored
C8_Witness ==
    /\ Reached("UpdateSub")
    /\ IsMonthYear(last.req.sub.StartDate)
    /\ ~DatesWellFormed(last.req.sub)
    /\ last.req.id \notin DOMAIN before
    /\ IsInvalidDate(last.err)

\* C9: an invalid-date failure of Create, Update or GetTotalCost is answered
\* with a client error (4xx), not with the 500 used for backend failures.
C9_InvalidDateIsClientError ==
    (last.repo /\ IsInvalidDate(last.err)) =>
        /\ ~IsNotFound(last.err) /\ ~IsStorageFailure(last.err)
        /\ last.status \in 400..499
        /\ last.status # StatusInternalServerError

\* the last request was a successful Create or Update with end_date = ""
StoredWithoutEnd ==
    /\ last.op \in {"CreateSub", "UpdateSub"} /\ last.repo
    /\ last.err = NoError
    /\ last.req.sub.EndDate = <<>>

\* the id of the record the last Create or Update wrote
WrittenId == IF last.op = "CreateSub" THEN last.val ELSE last.req.id

\* the table without one record
Without(db, id) == [i \in DOMAIN db \ {id} |-> db[i]]

\* C10: after a successful Create or Update with end_date = "" the record's
\* end date is absent: Get returns an empty end_date (also when the Update
\* replaced an end date), and GetTotalCost counts the record's price for
\* every period whose period_end is not before its start_date.
C10_EmptyEndDateIsOpenEnded ==
    StoredWithoutEnd =>
        /\ WrittenId \in DOMAIN subscriptions
        /\ Get(subscriptions, WrittenId, FALSE).err = NoError
        /\ Get(subscriptions, WrittenId, FALSE).val.EndDate = <<>>
        /\ \A ps \in {Mar2024, Jan2025, DefaultPeriodEnd},
              pe \in {Jan2024, Mar2024, Jun2024, DefaultPeriodEnd} :
              TextMonths(pe) >= DateMonths(subscriptions[WrittenId].start_date)
              => /\ GetTotalCost(subscriptions, uuidNil, "", ps, pe, FALSE).err = NoError
                 /\ GetTotalCost(subscriptions, uuidNil, "", ps, pe, FALSE).val
                    = GetTotalCost(Without(subscriptions, WrittenId),
                                   uuidNil, "", ps, pe, FALSE).val
                      + subscriptions[WrittenId].price

\* an Update with end_date = "" of a record that had an end date
C10_Witness ==
    /\ StoredWithoutEnd
    /\ last.op = "UpdateSub"
    /\ before[last.req.id].end_date # NULL
    /\ Cardinality(DOMAIN subscriptions) > 1

\* the last request reached a writing / a reading method of the Store
WriteServed == last.op \in {"CreateSub", "UpdateSub", "DeleteSub"} /\ last.repo

ReadServed == last.op \in {"GetSub", "ListSubs", "GetTotalCost"} /\ last.repo

\* C11: when Create, Update or Delete returns an error (invalid date,
\* NotFound or a failure of its backend statement) the table is as it was
\* before the call, and Get, List and GetTotalCost never change the table.
C11_NoPartialApplication ==
    /\ (WriteServed /\ last.err # NoError) => subscriptions = before
    /\ ReadServed => subscriptions = before

\* a Create whose statement the backend failed, on a table that has records
C11_Witness ==
    /\ last.op = "CreateSub" /\ last.repo
    /\ last.fault /\ IsStorageFailure(last.err)
    /\ last.calls = 1
    /\ DOMAIN before # {}

\* C13: every stored record has price >= 0, whatever price the bodies of
\* the Create and Update requests carry.
C13_StoredPriceNonNegative ==
    \A i \in DOMAIN subscriptions : subscriptions[i].price >= 0

\* an Update of a stored record whose body carries a negative price was
\* answered
C13_Witness ==
    /\ last.op = "UpdateSub"
    /\ last.req.id \in DOMAIN subscriptions
    /\ last.req.sub.Price < 0
    /\ DatesWellFormed(last.req.sub)

\* caller c's call has returned after executing its statement, which the
\* backend did not fail
Completed(c, op) ==
    /\ inflight[c].pc = "returned" /\ inflight[c].op = op
    /\ inflight[c].stmt /\ ~inflight[c].failed

Succeeded(c) == inflight[c].err = NoError

\* every call returned what the Store's methods return when run one at a
\* time in the order of the statements, and the table is that run's table
Linearizable ==
    /\ subscriptions = serial
    /\ \A c \in DOMAIN inflight :
          inflight[c].pc = "returned" =>
              /\ inflight[c].err = inflight[c].expect.err
              /\ inflight[c].val = inflight[c].expect.val

\* of the Deletes of one id never more than one succeeds, and of two Deletes
\* that both found the id stored when they were called, with no third Delete
\* of it, exactly one succeeds and the other returns ErrNotFound
OneDeleteWins ==
    \A c, d \in DOMAIN inflight :
        ( /\ c # d /\ Completed(c, "Delete") /\ Completed(d, "Delete")
          /\ inflight[c].rq.id = inflight[d].rq.id )
        => /\ ~(Succeeded(c) /\ Succeeded(d))
           /\ ( /\ inflight[c].found /\ inflight[d].found
                /\ \A e \in DOMAIN inflight \ {c, d} :
                      ~(inflight[e].op = "Delete" /\ inflight[e].rq.id = inflight[c].rq.id) )
              => \/ Succeeded(c) /\ inflight[d].err = ErrNotFound
                 \/ Succeeded(d) /\ inflight[c].err = ErrNotFound

\* an Update succeeds or returns ErrNotFound, and a record a Delete removed
\* is not stored again
DeletedStaysDeleted ==
    /\ \A c \in DOMAIN inflight :
          Completed(c, "Update") => Succeeded(c) \/ inflight[c].err = ErrNotFound
    /\ \A d \in DOMAIN inflight :
          ( /\ inflight[d].pc \in {"executed", "returned"} /\ inflight[d].op = "Delete"
            /\ IF inflight[d].pc = "executed" THEN inflight[d].res.rows = 1
               ELSE inflight[d].stmt /\ inflight[d].rows = 1 )
          => inflight[d].rq.id \notin DOMAIN subscriptions

\* C12: for every interleaving of concurrent Store calls, each statement
\* taking effect atomically, the results and the table equal those of the
\* calls run one at a time in the order of their statements; of two
\* concurrent Deletes of a stored id exactly one succeeds and the other
\* returns ErrNotFound; an Update racing a Delete succeeds before the deletion
\* or returns ErrNotFound and never stores the record again.
C12_ConcurrentCallsAreSerializable ==
    /\ Linearizable
    /\ OneDeleteWins
    /\ DeletedStaysDeleted

\* an Update and a Delete of the same stored id were in flight together, the
\* Delete's statement came first and the Update returned ErrNotFound
C12_Witness ==
    \E c, d \in DOMAIN inflight :
        /\ Completed(c, "Update") /\ Completed(d, "Delete")
        /\ inflight[c].rq.id = inflight[d].rq.id
        /\ inflight[c].found /\ inflight[d].found
        /\ Succeeded(d)
        /\ inflight[c].err = ErrNotFound
        /\ inflight[c].rq.id \notin DOMAIN subscriptions

====
